---- MODULE Spec2Model ----
(***************************************************************************)
(* Fictitious play with two players (src/fictplay.py, class                *)
(* FictitiousPlay).                                                        *)
(*                                                                         *)
(* Beliefs are numpy float arrays in the source; here they are vectors of  *)
(* exact rationals <<n, d>> in lowest terms, so that the recurrence is     *)
(* checked without rounding.  numpy arrays are objects that are mutated in *)
(* place and handed around by reference, so the model keeps them in a heap *)
(* (address -> contents) and lets attributes, tuples and locals hold       *)
(* addresses.                                                              *)
(***************************************************************************)
EXTENDS Integers, Sequences, FiniteSets, TLC

\* ---------------------------------------------------------------- bounds
MaxTs == 3        \* largest ts_length passed to simulate / simulate_iter
MaxT == 1         \* largest T passed to replicate
MaxReps == 2      \* largest num_reps passed to replicate
MaxOps == 4       \* calls the caller makes (Spec, SpecPar)
MaxRunOps == 3    \* calls the caller makes (SpecRun)

\* ------------------------------------------------------- exact rationals
RECURSIVE gcd(_, _)
gcd(a, b) == IF b = 0 THEN a ELSE gcd(b, a % b)

Abs(a) == IF a < 0 THEN -a ELSE a

Rat(n, d) == LET k == gcd(Abs(n), d) IN <<n \div k, d \div k>>

Zero == Rat(0, 1)
One == Rat(1, 1)

RAdd(x, y) == Rat(x[1] * y[2] + y[1] * x[2], x[2] * y[2])
RSub(x, y) == Rat(x[1] * y[2] - y[1] * x[2], x[2] * y[2])
RMul(x, y) == Rat(x[1] * y[1], x[2] * y[2])
RLt(x, y) == x[1] * y[2] < y[1] * x[2]
RLe(x, y) == x[1] * y[2] <= y[1] * x[2]

\* vectors and tuples are indexed from 0, as in the source
Vec(s) == [k \in 0..(Len(s) - 1) |-> s[k + 1]]
Pair(a, b) == [i \in 0..1 |-> IF i = 0 THEN a ELSE b]
Size(v) == Cardinality(DOMAIN v)

\* ------------------------------------------------------------- the games
\* payoff[i][a][k]: payoff to player i playing a when the opponent plays k
MatchingPennies ==
  [N |-> 2, nums_actions |-> Pair(2, 2),
   payoff |-> Pair(Vec(<<Vec(<<1, -1>>), Vec(<<-1, 1>>)>>),
                   Vec(<<Vec(<<-1, 1>>), Vec(<<1, -1>>)>>))]

Coordination ==
  [N |-> 2, nums_actions |-> Pair(2, 2),
   payoff |-> Pair(Vec(<<Vec(<<2, 0>>), Vec(<<0, 1>>)>>),
                   Vec(<<Vec(<<2, 0>>), Vec(<<0, 1>>)>>))]

TwoByThree ==
  [N |-> 2, nums_actions |-> Pair(2, 3),
   payoff |-> Pair(Vec(<<Vec(<<3, 0, 1>>), Vec(<<0, 2, 1>>)>>),
                   Vec(<<Vec(<<2, 0>>), Vec(<<0, 2>>), Vec(<<1, 1>>)>>))]

NoGame == [N |-> 0, nums_actions |-> Pair(0, 0), payoff |-> Pair(<<>>, <<>>)]
Players(n) == [NoGame EXCEPT !.N = n]

\* what the constructor may be given: a NormalFormGame (game, with game.N
\* players), or array_like data with ndim dimensions (game is then the game
\* these payoffs describe)
Inputs ==
  { [kind |-> "game", ndim |-> 0, game |-> MatchingPennies],
    [kind |-> "game", ndim |-> 0, game |-> Players(1)],
    [kind |-> "game", ndim |-> 0, game |-> Players(3)],
    [kind |-> "array", ndim |-> 2, game |-> Coordination],
    [kind |-> "array", ndim |-> 3, game |-> TwoByThree],
    [kind |-> "array", ndim |-> 1, game |-> NoGame],
    [kind |-> "array", ndim |-> 4, game |-> NoGame] }

\* NormalFormGame(payoffs): a square matrix is a symmetric two-player game,
\* a 3-dimensional array a bimatrix game
NormalFormGame(d) == d.game

\* Player.best_response: the first action maximising the expected payoff
\* payoff_array.dot(belief)
RECURSIVE DotTo(_, _, _)
DotTo(row, b, n) ==
  IF n = 0 THEN Zero
  ELSE RAdd(DotTo(row, b, n - 1), RMul(Rat(row[n - 1], 1), b[n - 1]))

payoff_vector(payoff_array, b) ==
  [a \in DOMAIN payoff_array |-> DotTo(payoff_array[a], b, Size(b))]

best_response(payoff_array, b) ==
  LET pv == payoff_vector(payoff_array, b)
  IN  CHOOSE a \in DOMAIN pv :
        /\ \A c \in DOMAIN pv : RLe(pv[c], pv[a])
        /\ \A c \in DOMAIN pv : c < a => RLt(pv[c], pv[a])

\* ------------------------------------------------------------- the heap
EngineAddr == Pair(1, 2)           \* the arrays made by np.empty in __init__
NumIB == 2                         \* explicit init_beliefs the caller owns
IBAddr(k, i) == 2 * k + i + 1
IBRefs(k) == Pair(IBAddr(k, 0), IBAddr(k, 1))
\* the arrays made by np.empty in the __init__ of a second engine
SecondAddr == Pair(2 * NumIB + 3, 2 * NumIB + 4)
Addr == 1..(2 * NumIB + 4)

Half == Vec(<<Rat(1, 2), Rat(1, 2)>>)
Third == Vec(<<Rat(1, 3), Rat(1, 3), Rat(1, 3)>>)

\* the caller's explicit init_beliefs for a game, of the right lengths
CallerBeliefs(game, k) ==
  LET m == Pair(game.nums_actions[1], game.nums_actions[0])
      v(n) == IF k = 1
              THEN (IF n = 2 THEN Vec(<<Rat(1, 4), Rat(3, 4)>>) ELSE Third)
              ELSE (IF n = 2 THEN Vec(<<One, Zero>>)
                    ELSE Vec(<<Zero, One, Zero>>))
  IN  [i \in 0..1 |-> IF m[i] = 0 THEN <<>> ELSE v(m[i])]

\* np.random.dirichlet(np.ones(n)): a point of the open simplex
Dirichlet(n) ==
  IF n = 2 THEN {Half, Vec(<<Rat(2, 3), Rat(1, 3)>>)}
  ELSE {Third, Vec(<<Rat(1, 4), Rat(1, 4), Rat(1, 2)>>)}

Draws(sizes) ==
  {Pair(x, y) : x \in Dirichlet(sizes[0]), y \in Dirichlet(sizes[1])}

\* ------------------------------------------------------------ operations
\* a schedule that stays at 1/2
step_size_constant(t) == Rat(1, 2)

\* self.step_size = lambda t: 1 / (t+2)
step_size(t) == Rat(1, t + 2)

Scale(v, c) == [k \in DOMAIN v |-> RMul(v[k], c)]
AddAt(v, idx, s) == [k \in DOMAIN v |-> IF k = idx THEN RAdd(v[k], s) ELSE v[k]]

current_beliefs(cur) == Pair(cur[0], cur[1])
Deref(h, refs) == [i \in 0..1 |-> h[refs[i]]]

\* set_init_beliefs with the copy turned round: the engine's arrays are
\* written into the caller's vectors
set_init_beliefs_into_caller(h, cur, init_beliefs, draw) ==
  IF init_beliefs = 0
  THEN [[h EXCEPT ![cur[0]] = draw[0]] EXCEPT ![cur[1]] = draw[1]]
  ELSE [[h EXCEPT ![IBRefs(init_beliefs)[0]] = h[cur[0]]]
          EXCEPT ![IBRefs(init_beliefs)[1]] = h[cur[1]]]

\* set_init_beliefs giving each player the vector meant for the other
set_init_beliefs_crossed(h, cur, init_beliefs, draw) ==
  LET v0 == IF init_beliefs = 0 THEN draw[1] ELSE h[IBRefs(init_beliefs)[1]]
      h0 == [h EXCEPT ![cur[0]] = v0]
      v1 == IF init_beliefs = 0 THEN draw[0] ELSE h0[IBRefs(init_beliefs)[0]]
  IN  [h0 EXCEPT ![cur[1]] = v1]

\* init_beliefs: 0 is None, k >= 1 the caller's k-th pair of vectors
set_init_beliefs(h, cur, init_beliefs, draw) ==
  LET v0 == IF init_beliefs = 0 THEN draw[0] ELSE h[IBRefs(init_beliefs)[0]]
      h0 == [h EXCEPT ![cur[0]] = v0]
      v1 == IF init_beliefs = 0 THEN draw[1] ELSE h0[IBRefs(init_beliefs)[1]]
  IN  [h0 EXCEPT ![cur[1]] = v1]

\* a play() answering the opponent's belief
play_to_opponents_belief(h, cur, game) ==
  [i \in 0..1 |-> best_response(game.payoff[i], h[cur[1 - i]])]

\* play(): current_actions[i] = player.best_response(player.current_belief)
play(h, cur, game) ==
  [i \in 0..1 |-> best_response(game.payoff[i], h[cur[i]])]

\* update_beliefs moving each belief towards the player's own action
update_beliefs_own_action(h, cur, acts, s) ==
  LET h0 == [h EXCEPT ![cur[0]] =
               AddAt(Scale(h[cur[0]], RSub(One, s)), acts[0], s)]
  IN  [h0 EXCEPT ![cur[1]] =
               AddAt(Scale(h0[cur[1]], RSub(One, s)), acts[1], s)]

\* update_beliefs without the scaling by 1 - step_size
update_beliefs_no_scaling(h, cur, acts, s) ==
  LET h0 == [h EXCEPT ![cur[0]] = AddAt(h[cur[0]], acts[1], s)]
  IN  [h0 EXCEPT ![cur[1]] = AddAt(h0[cur[1]], acts[0], s)]

\* update_beliefs changing the belief of player 0 only
update_beliefs_first_player_only(h, cur, acts, s) ==
  [h EXCEPT ![cur[0]] = AddAt(Scale(h[cur[0]], RSub(One, s)), acts[1], s)]

\* update_beliefs(step_size): belief *= 1 - step_size, then
\* belief[current_actions[1 - i]] += step_size, for each player in turn
update_beliefs(h, cur, acts, s) ==
  LET h0 == [h EXCEPT ![cur[0]] =
               AddAt(Scale(h[cur[0]], RSub(One, s)), acts[1], s)]
  IN  [h0 EXCEPT ![cur[1]] =
               AddAt(Scale(h0[cur[1]], RSub(One, s)), acts[0], s)]


\* simulate_iter going on from the current beliefs, without the reset
start_run_no_reset(h, cur, init_beliefs, draw) == h

\* self.set_init_beliefs(init_beliefs), the first statement of simulate_iter
start_run(h, cur, init_beliefs, draw) ==
  set_init_beliefs(h, cur, init_beliefs, draw)

\* two rounds where the loop body has one
play_and_update_twice(h, cur, acts, game, t) ==
  LET a1 == play(h, cur, game)
      h1 == update_beliefs(h, cur, a1, step_size(t))
      a2 == play(h1, cur, game)
  IN  [acts |-> a2, heap |-> update_beliefs(h1, cur, a2, step_size(t))]

\* the round without play(): the update uses the actions left behind
play_and_update_stale_actions(h, cur, acts, game, t) ==
  [acts |-> acts, heap |-> update_beliefs(h, cur, acts, step_size(t))]

\* the round with the schedule one index ahead
play_and_update_next_step(h, cur, acts, game, t) ==
  LET a1 == play(h, cur, game)
  IN  [acts |-> a1, heap |-> update_beliefs(h, cur, a1, step_size(t + 1))]

\* self.play(); self.update_beliefs(self.step_size(t)), the rest of the loop
\* body of simulate_iter after its yield
play_and_update(h, cur, acts, game, t) ==
  LET a1 == play(h, cur, game)
  IN  [acts |-> a1, heap |-> update_beliefs(h, cur, a1, step_size(t))]

\* simulate_iter with the round before the yield instead of after it
simulate_iter_round_first(gn, h, cur, acts, game, draw) ==
  LET h1 == IF gn.st = "created"
            THEN start_run(h, cur, gn.init, draw) ELSE h
      t1 == IF gn.st = "created" THEN 0 ELSE gn.t + 1
      r == play_and_update(h1, cur, acts, game, t1)
  IN  IF t1 < gn.ts_length
      THEN [gen |-> [gn EXCEPT !.st = "suspended", !.t = t1],
            heap |-> r.heap, acts |-> r.acts, stop |-> FALSE,
            refs |-> current_beliefs(cur)]
      ELSE [gen |-> [gn EXCEPT !.st = "done", !.t = t1],
            heap |-> h1, acts |-> acts, stop |-> TRUE,
            refs |-> Pair(0, 0)]

\* simulate_iter leaving the loop right after its last yield, without the
\* round that follows it
simulate_iter_no_final_round(gn, h, cur, acts, game, draw) ==
  IF gn.st = "created"
  THEN LET h1 == start_run(h, cur, gn.init, draw)
       IN  IF 0 < gn.ts_length
           THEN [gen |-> [gn EXCEPT !.st = "suspended", !.t = 0],
                 heap |-> h1, acts |-> acts, stop |-> FALSE,
                 refs |-> current_beliefs(cur)]
           ELSE [gen |-> [gn EXCEPT !.st = "done"],
                 heap |-> h1, acts |-> acts, stop |-> TRUE,
                 refs |-> Pair(0, 0)]
  ELSE LET r == play_and_update(h, cur, acts, game, gn.t)
       IN  IF gn.t + 1 < gn.ts_length
           THEN [gen |-> [gn EXCEPT !.t = gn.t + 1],
                 heap |-> r.heap, acts |-> r.acts, stop |-> FALSE,
                 refs |-> current_beliefs(cur)]
           ELSE [gen |-> [gn EXCEPT !.st = "done", !.t = gn.t + 1],
                 heap |-> h, acts |-> acts, stop |-> TRUE,
                 refs |-> Pair(0, 0)]

\* one next() on the generator made by simulate_iter(ts_length, init_beliefs):
\* a generator not yet started runs set_init_beliefs and enters the loop, a
\* suspended one resumes after its yield with play() and update_beliefs().
\* The result is the generator, the heap and the actions afterwards, and
\* either the yielded tuple of references or stop (StopIteration).
simulate_iter(gn, h, cur, acts, game, draw) ==
  IF gn.st = "created"
  THEN LET h1 == start_run(h, cur, gn.init, draw)
       IN  IF 0 < gn.ts_length
           THEN [gen |-> [gn EXCEPT !.st = "suspended", !.t = 0],
                 heap |-> h1, acts |-> acts, stop |-> FALSE,
                 refs |-> current_beliefs(cur)]
           ELSE [gen |-> [gn EXCEPT !.st = "done"],
                 heap |-> h1, acts |-> acts, stop |-> TRUE,
                 refs |-> Pair(0, 0)]
  ELSE LET r == play_and_update(h, cur, acts, game, gn.t)
       IN  IF gn.t + 1 < gn.ts_length
           THEN [gen |-> [gn EXCEPT !.t = gn.t + 1],
                 heap |-> r.heap, acts |-> r.acts, stop |-> FALSE,
                 refs |-> current_beliefs(cur)]
           ELSE [gen |-> [gn EXCEPT !.st = "done", !.t = gn.t + 1],
                 heap |-> r.heap, acts |-> r.acts, stop |-> TRUE,
                 refs |-> Pair(0, 0)]

\* simulate keeping the yielded arrays themselves: every row written so far
\* shows the arrays' current contents
store_rows_by_reference(buf, t, h, refs) ==
  [i \in 0..1 |-> [r \in DOMAIN buf[i] |->
                     IF r <= t THEN h[refs[i]] ELSE buf[i][r]]]

\* belief_sequences[i][t] = belief, for both players (simulate)
store_rows(buf, t, h, refs) ==
  [i \in 0..1 |-> [buf[i] EXCEPT ![t] = h[refs[i]]]]

\* belief_array[j] = belief for belief_array, belief in zip(out, x) (replicate)
store_final(out, j, h, x) ==
  [i \in 0..1 |-> [out[i] EXCEPT ![j] = h[x[i]]]]

\* np.empty((rows, belief_size)) for each player; <<>> is a row not written
Buffers(rows) == Pair([r \in 0..(rows - 1) |-> <<>>],
                      [r \in 0..(rows - 1) |-> <<>>])

\* ----------------------------------------------------------------- state
VARIABLES
  status,           \* "new": not constructed, "ok": constructed, "error"
  data,             \* the argument of __init__
  g,                \* self.g
  N,                \* self.N
  belief_sizes,     \* self.belief_sizes
  cur_belief,       \* player.current_belief of players[0], players[1],
                    \* the players of the game object self.g
  second,           \* a second engine made from the same game object: its
                    \* own fields (its players are the game's players)
  heap,             \* contents of the arrays
  current_actions,  \* self.current_actions
  schedule,         \* self.step_size
  gens,             \* the generator objects made by simulate_iter
  frame,            \* the simulate / replicate call in progress
  ret,              \* what the call just finished returned (simulate,
                    \* replicate)
  seen,             \* what the caller read from each element a generator
                    \* yielded, at the time of the pull
  clean,            \* no other operation changed the beliefs while the
                    \* generator was suspended
  kept,             \* the tuples each generator yielded, as the caller
                    \* collects them: references to arrays
  stacked,          \* the rows the caller stacks from the collected tuples
                    \* once the generator is exhausted
  lastop,           \* the last operation performed
  nops,             \* number of calls made by the caller
  limit             \* number of calls the caller is going to make

vars == <<status, data, g, N, belief_sizes, cur_belief, second, heap,
          current_actions, schedule, gens, frame, ret, seen, clean,
          kept, stacked, lastop, nops, limit>>

engine == <<status, data, g, N, belief_sizes, cur_belief, schedule, limit>>

\* what the caller has got out of the generators
collected == <<seen, kept, stacked>>

GenIds == 1..2
NoGen == [st |-> "none", ts_length |-> 0, init |-> 0, t |-> 0]
NoRefs == Pair(0, 0)
NoOut == Pair(<<>>, <<>>)
Idle == [op |-> "idle", ts_length |-> 0, T |-> 0, num_reps |-> 0,
         init |-> 0, it |-> NoGen, t |-> 0, j |-> 0, x |-> NoRefs,
         out |-> NoOut, dirty |-> FALSE]
NoSecond == [status |-> "none", current_actions |-> <<>>]
NoRet == [op |-> "none", ts_length |-> 0, T |-> 0, num_reps |-> 0,
          init |-> 0, out |-> NoOut, dirty |-> FALSE]
Op(name) == [op |-> name, s |-> Zero, gen |-> 0, init |-> 0, stop |-> FALSE]

Start ==
  /\ status = "new"
  /\ data \in Inputs
  /\ g = NoGame
  /\ N = 0
  /\ belief_sizes = Pair(0, 0)
  /\ cur_belief = NoRefs
  /\ second = NoSecond
  /\ heap = [a \in Addr |->
               IF a <= 2 \/ a > 2 * NumIB + 2 THEN <<>>
               ELSE CallerBeliefs(data.game, (a - 1) \div 2)[(a - 1) % 2]]
  /\ current_actions = <<>>
  /\ schedule = "none"
  /\ gens = [k \in GenIds |-> NoGen]
  /\ frame = Idle
  /\ ret = NoRet
  /\ seen = [k \in GenIds |-> <<>>]
  /\ clean = [k \in GenIds |-> TRUE]
  /\ kept = [k \in GenIds |-> <<>>]
  /\ stacked = [k \in GenIds |-> NoOut]
  /\ lastop = Op("init")
  /\ nops = 0

Init == Start /\ limit = MaxOps
InitRun == Start /\ limit = MaxRunOps

\* the check of __init__ letting a game of one player through
InvalidInput_more_than_two(d) ==
  \/ d.kind = "game" /\ d.game.N > 2
  \/ d.kind = "array" /\ ~(d.ndim \in {2, 3})

\* __init__(data)
InvalidInput(d) ==
  \/ d.kind = "game" /\ d.game.N # 2
  \/ d.kind = "array" /\ ~(d.ndim \in {2, 3})

Construct ==
  /\ status = "new"
  /\ IF InvalidInput(data)
     THEN /\ status' = "error"
          /\ lastop' = Op("raise")
          /\ UNCHANGED <<data, g, N, belief_sizes, cur_belief, heap,
                         current_actions, schedule, limit>>
     ELSE LET game == IF data.kind = "game" THEN data.game
                      ELSE NormalFormGame(data)
              sizes == [i \in 0..1 |-> game.nums_actions[1 - i]]
          IN  /\ status' = "ok"
              /\ g' = game
              /\ N' = game.N
              /\ belief_sizes' = sizes
              /\ cur_belief' = EngineAddr
              /\ \E draw \in Draws(sizes) :
                   heap' = set_init_beliefs(heap, EngineAddr, 0, draw)
              /\ current_actions' = Pair(0, 0)
              /\ schedule' = "default"
              /\ lastop' = Op("__init__")
              /\ UNCHANGED <<data, limit>>
  /\ UNCHANGED <<second, gens, frame, ret, collected, clean, nops>>

Ready == status = "ok" /\ frame.op = "idle" /\ nops < limit

\* a change of the beliefs made while a generator is suspended
Disturb(except) ==
  [k \in GenIds |-> IF k # except /\ gens[k].st = "suspended"
                    THEN FALSE ELSE clean[k]]

\* set_init_beliefs(init_beliefs)
SetInitBeliefs(init_beliefs) ==
  /\ Ready
  /\ \E draw \in Draws(belief_sizes) :
       heap' = set_init_beliefs(heap, cur_belief, init_beliefs, draw)
  /\ clean' = Disturb(0)
  /\ lastop' = [Op("set_init_beliefs") EXCEPT !.init = init_beliefs]
  /\ nops' = nops + 1
  /\ UNCHANGED <<engine, second, current_actions, gens, frame, collected>>
  /\ ret' = NoRet

\* play()
Play ==
  /\ Ready
  /\ current_actions' = play(heap, cur_belief, g)
  /\ lastop' = Op("play")
  /\ nops' = nops + 1
  /\ UNCHANGED <<engine, second, heap, gens, frame, collected, clean>>
  /\ ret' = NoRet

\* update_beliefs(step_size)
StepSizes == {Rat(1, 2), Rat(1, 3), One}

UpdateBeliefs(s) ==
  /\ Ready
  /\ heap' = update_beliefs(heap, cur_belief, current_actions, s)
  /\ clean' = Disturb(0)
  /\ lastop' = [Op("update_beliefs") EXCEPT !.s = s]
  /\ nops' = nops + 1
  /\ UNCHANGED <<engine, second, current_actions, gens, frame, collected>>
  /\ ret' = NoRet

\* draws are only used when the beliefs are set at random
DrawsFor(gn) ==
  IF gn.st = "created" /\ gn.init = 0 THEN Draws(belief_sizes)
  ELSE {Pair(<<>>, <<>>)}

Created(ts_length, init_beliefs) ==
  [st |-> "created", ts_length |-> ts_length, init |-> init_beliefs, t |-> 0]

\* k = simulate_iter(ts_length, init_beliefs): no code of the body runs
SimulateIter(k, ts_length, init_beliefs) ==
  /\ status = "ok" /\ frame.op = "idle"
  /\ gens[k].st = "none"
  /\ k > 1 => gens[k - 1].st # "none"
  /\ gens' = [gens EXCEPT ![k] = Created(ts_length, init_beliefs)]
  /\ lastop' = [Op("simulate_iter") EXCEPT !.gen = k, !.init = init_beliefs]
  /\ UNCHANGED <<engine, second, heap, current_actions, frame, collected,
                 clean, nops>>
  /\ ret' = NoRet

\* next(k)
NextElement(k) ==
  /\ Ready
  /\ gens[k].st \in {"created", "suspended"}
  /\ \E draw \in DrawsFor(gens[k]) :
       \E r \in {simulate_iter(gens[k], heap, cur_belief, current_actions,
                              g, draw)} :
           /\ gens' = [gens EXCEPT ![k] = r.gen]
           /\ heap' = r.heap
           /\ current_actions' = r.acts
           /\ seen' = IF r.stop THEN seen
                      ELSE [seen EXCEPT
                              ![k] = Append(@, Deref(r.heap, r.refs))]
           /\ kept' = IF r.stop THEN kept
                      ELSE [kept EXCEPT ![k] = Append(@, r.refs)]
           /\ stacked' =
                IF r.stop
                THEN [stacked EXCEPT
                        ![k] = [i \in 0..1 |->
                                  [t \in 0..(Len(kept[k]) - 1) |->
                                     r.heap[kept[k][t + 1][i]]]]]
                ELSE stacked
           /\ lastop' = [Op("next") EXCEPT !.gen = k, !.stop = r.stop]
  /\ clean' = Disturb(k)
  /\ nops' = nops + 1
  /\ UNCHANGED <<engine, second, frame>>
  /\ ret' = NoRet

\* the engine is not in the state a fresh construction and reset would give:
\* some earlier rounds moved the beliefs and left actions behind
Dirty(init_beliefs) ==
  /\ init_beliefs # 0
  /\ \A i \in 0..1 : heap[cur_belief[i]] # heap[IBRefs(init_beliefs)[i]]
  /\ current_actions # Pair(0, 0)

\* simulate(ts_length, init_beliefs): the buffers and the generator are made
SimulateCall(ts_length, init_beliefs) ==
  /\ Ready
  /\ frame' = [Idle EXCEPT !.op = "simulate", !.ts_length = ts_length,
                           !.init = init_beliefs,
                           !.it = Created(ts_length, init_beliefs),
                           !.out = Buffers(ts_length),
                           !.dirty = Dirty(init_beliefs)]
  /\ lastop' = [Op("simulate") EXCEPT !.init = init_beliefs]
  /\ nops' = nops + 1
  /\ UNCHANGED <<engine, second, heap, current_actions, gens, collected, clean>>
  /\ ret' = NoRet

\* one turn of the loop of simulate: pull an element and store its rows, or
\* return the buffers when the generator is exhausted
SimulateStep ==
  /\ frame.op = "simulate"
  /\ \E draw \in DrawsFor(frame.it) :
       \E r \in {simulate_iter(frame.it, heap, cur_belief, current_actions,
                              g, draw)} :
           /\ heap' = r.heap
           /\ current_actions' = r.acts
           /\ IF r.stop
              THEN /\ frame' = Idle
                   /\ ret' = [op |-> "simulate", ts_length |-> frame.ts_length,
                              T |-> 0, num_reps |-> 0, init |-> frame.init,
                              out |-> frame.out, dirty |-> frame.dirty]
                   /\ lastop' = Op("return")
              ELSE /\ frame' = [frame EXCEPT
                                  !.it = r.gen, !.t = @ + 1,
                                  !.out = store_rows(@, frame.t, r.heap, r.refs)]
                   /\ ret' = ret
                   /\ lastop' = Op("simulate_row")
  /\ clean' = Disturb(0)
  /\ UNCHANGED <<engine, second, gens, collected, nops>>

\* replicate(T, num_reps, init_beliefs)
ReplicateCall(T, num_reps, init_beliefs) ==
  /\ Ready
  /\ frame' = [Idle EXCEPT !.op = "replicate", !.T = T,
                           !.num_reps = num_reps, !.init = init_beliefs,
                           !.it = Created(T + 1, init_beliefs),
                           !.out = Buffers(num_reps),
                           !.dirty = Dirty(init_beliefs)]
  /\ lastop' = [Op("replicate") EXCEPT !.init = init_beliefs]
  /\ nops' = nops + 1
  /\ UNCHANGED <<engine, second, heap, current_actions, gens, collected, clean>>
  /\ ret' = NoRet

\* one turn of the inner loop of replicate: pull an element and bind x to it,
\* or, when the generator is exhausted, store x in row j and go on with the
\* next repetition or return
ReplicateStep ==
  /\ frame.op = "replicate"
  /\ \E draw \in DrawsFor(frame.it) :
       \E r \in {simulate_iter(frame.it, heap, cur_belief, current_actions,
                              g, draw)} :
       LET out1 == store_final(frame.out, frame.j, r.heap, frame.x)
       IN  /\ heap' = r.heap
           /\ current_actions' = r.acts
           /\ IF ~r.stop
              THEN /\ frame' = [frame EXCEPT !.it = r.gen, !.x = r.refs]
                   /\ ret' = ret
                   /\ lastop' = Op("replicate_pull")
              ELSE IF frame.j + 1 < frame.num_reps
              THEN /\ frame' = [frame EXCEPT
                                  !.it = Created(frame.T + 1, frame.init),
                                  !.j = @ + 1, !.out = out1]
                   /\ ret' = ret
                   /\ lastop' = Op("replicate_row")
              ELSE /\ frame' = Idle
                   /\ ret' = [op |-> "replicate", ts_length |-> 0,
                              T |-> frame.T, num_reps |-> frame.num_reps,
                              init |-> frame.init, out |-> out1,
                              dirty |-> frame.dirty]
                   /\ lastop' = Op("return")
  /\ clean' = Disturb(0)
  /\ UNCHANGED <<engine, second, gens, collected, nops>>

\* second = FictitiousPlay(g), g being the game object of the first engine:
\* self.players are g.players, whose current_belief is bound to new arrays
ConstructSecond ==
  /\ Ready
  /\ second.status = "none"
  /\ ~InvalidInput([kind |-> "game", ndim |-> 0, game |-> g])
  /\ cur_belief' = SecondAddr
  /\ \E draw \in Draws(belief_sizes) :
       heap' = set_init_beliefs(heap, SecondAddr, 0, draw)
  /\ second' = [status |-> "ok", current_actions |-> Pair(0, 0)]
  /\ clean' = Disturb(0)
  /\ lastop' = Op("second.__init__")
  /\ nops' = nops + 1
  /\ ret' = NoRet
  /\ UNCHANGED <<status, data, g, N, belief_sizes, schedule, limit,
                 current_actions, gens, frame, collected>>

\* second.play()
SecondPlay ==
  /\ Ready
  /\ second.status = "ok"
  /\ second' = [second EXCEPT !.current_actions = play(heap, cur_belief, g)]
  /\ lastop' = Op("second.play")
  /\ nops' = nops + 1
  /\ ret' = NoRet
  /\ UNCHANGED <<engine, heap, current_actions, gens, frame, collected,
                 clean>>

\* second.update_beliefs(step_size)
SecondUpdateBeliefs(s) ==
  /\ Ready
  /\ second.status = "ok"
  /\ heap' = update_beliefs(heap, cur_belief, second.current_actions, s)
  /\ clean' = Disturb(0)
  /\ lastop' = [Op("second.update_beliefs") EXCEPT !.s = s]
  /\ nops' = nops + 1
  /\ ret' = NoRet
  /\ UNCHANGED <<engine, second, current_actions, gens, frame, collected>>

\* the caller uses the operations directly and drives one generator
Next ==
  \/ Construct
  \/ \E k \in 0..NumIB : SetInitBeliefs(k)
  \/ Play
  \/ \E s \in StepSizes : UpdateBeliefs(s)
  \/ \E ts_length \in 0..MaxTs, init_beliefs \in 0..NumIB :
       SimulateIter(1, ts_length, init_beliefs)
  \/ NextElement(1)

Spec == Init /\ [][Next]_vars

\* the caller interleaves the pulls of two generators of one engine
NextPar ==
  \/ Construct
  \/ \E k \in GenIds, ts_length \in 0..MaxTs, init_beliefs \in 0..NumIB :
       SimulateIter(k, ts_length, init_beliefs)
  \/ \E k \in GenIds : NextElement(k)

SpecPar == Init /\ [][NextPar]_vars

\* the caller runs simulate and replicate with explicit init_beliefs, after
\* some history of other calls, among them a generator it may abandon
NextRun ==
  \/ Construct
  \/ \E k \in 0..NumIB : SetInitBeliefs(k)
  \/ Play
  \/ \E s \in StepSizes : UpdateBeliefs(s)
  \/ \E init_beliefs \in 1..NumIB : SimulateIter(1, MaxTs, init_beliefs)
  \/ NextElement(1)
  \/ \E ts_length \in 0..MaxTs, init_beliefs \in 1..NumIB :
       SimulateCall(ts_length, init_beliefs)
  \/ SimulateStep
  \/ \E T \in 0..MaxT, num_reps \in 1..MaxReps, init_beliefs \in 1..NumIB :
       ReplicateCall(T, num_reps, init_beliefs)
  \/ ReplicateStep

SpecRun == InitRun /\ [][NextRun]_vars

\* the caller makes a second engine from the game object of the first and
\* uses both
NextTwo ==
  \/ Construct
  \/ Play
  \/ \E s \in StepSizes : UpdateBeliefs(s)
  \/ ConstructSecond
  \/ SecondPlay
  \/ \E s \in StepSizes : SecondUpdateBeliefs(s)

SpecTwo == Init /\ [][NextTwo]_vars

\* the caller collects the elements of a generator in a list, stacks them
\* when it is exhausted, and calls simulate
NextStack ==
  \/ Construct
  \/ \E ts_length \in 0..MaxTs, init_beliefs \in 1..NumIB :
       SimulateIter(1, ts_length, init_beliefs)
  \/ NextElement(1)
  \/ \E ts_length \in 0..MaxTs, init_beliefs \in 1..NumIB :
       SimulateCall(ts_length, init_beliefs)
  \/ SimulateStep

SpecStack == InitRun /\ [][NextStack]_vars


\* ------------------------------------------------------------ the claims
\* What the specification says a round is, written with the convex
\* combination and not with the in-place scaling of update_beliefs.
OneHot(n, a) == [k \in 0..(n - 1) |-> IF k = a THEN One ELSE Zero]

Convex(b, a, s) ==
  [k \in DOMAIN b |->
     RAdd(RMul(RSub(One, s), b[k]), RMul(s, OneHot(Size(b), a)[k]))]

Round(game, b, s) ==
  LET a == [i \in 0..1 |-> best_response(game.payoff[i], b[i])]
  IN  [i \in 0..1 |-> Convex(b[i], a[1 - i], s)]

\* the belief pair after t rounds of play() and update_beliefs(step_size(k)),
\* k = 0..t-1, from the pair b
RECURSIVE Rounds(_, _, _)
Rounds(game, b, t) ==
  IF t = 0 THEN b ELSE Round(game, Rounds(game, b, t - 1), step_size(t - 1))

\* the vectors the caller supplied as its k-th init_beliefs
Supplied(k) == CallerBeliefs(g, k)

RECURSIVE SumTo(_, _)
SumTo(v, n) == IF n = 0 THEN Zero ELSE RAdd(SumTo(v, n - 1), v[n - 1])
Sum(v) == SumTo(v, Size(v))

\* a probability vector: entries non-negative, summing to 1
IsProb(v) == /\ \A k \in DOMAIN v : RLe(Zero, v[k])
             /\ Sum(v) = One

\* C1: simulate_iter(ts_length, init_beliefs) with explicit init_beliefs
\* yields exactly ts_length belief pairs; element 0 is the initial pair, and
\* in a run that nothing else disturbs element t is the pair after exactly t
\* rounds of play() and update_beliefs(step_size(k)), k = 0..t-1.
C1_SimulateIterSequence ==
  \A k \in GenIds :
    gens[k].st # "none" /\ gens[k].init # 0 =>
      LET gn == gens[k]
          b == Supplied(gn.init)
      IN  /\ Len(seen[k]) <= gn.ts_length
          /\ gn.st = "created" => Len(seen[k]) = 0
          /\ gn.st = "suspended" => Len(seen[k]) = gn.t + 1
          /\ gn.st = "done" => Len(seen[k]) = gn.ts_length
          /\ Len(seen[k]) >= 1 => seen[k][1] = b
          /\ clean[k] =>
               \A t \in 1..Len(seen[k]) : seen[k][t] = Rounds(g, b, t - 1)

C1_Witness ==
  /\ gens[1].st = "done" /\ gens[1].init # 0 /\ clean[1]
  /\ gens[1].ts_length = MaxTs
  /\ Len(seen[1]) = MaxTs
  /\ seen[1][MaxTs] # seen[1][1]

\* C2: replicate(T, num_reps, init_beliefs) with explicit init_beliefs stores
\* in row j of each player's buffer the belief after exactly T rounds from
\* the initial belief.
C2_ReplicateStoresRoundT ==
  ret.op = "replicate" =>
    \A i \in 0..1 : \A j \in 0..(ret.num_reps - 1) :
      ret.out[i][j] = Rounds(g, Supplied(ret.init), ret.T)[i]

\* C3: update_beliefs(s) sets both beliefs to
\* (1 - s) * belief[i] + s * onehot(current_actions[1-i]) with the actions as
\* they were at the call; with s = 1/2 each belief moves exactly halfway to
\* the one-hot vector of the opponent's action.
C3_UpdateIsSimultaneousConvex ==
  [][lastop'.op = "update_beliefs" =>
       \A i \in 0..1 :
         LET old == heap[cur_belief[i]]
             new == heap'[cur_belief[i]]
             hot == OneHot(Size(old), current_actions[1 - i])
         IN  /\ new = Convex(old, current_actions[1 - i], lastop'.s)
             /\ lastop'.s = Rat(1, 2) =>
                  \A k \in DOMAIN old :
                    RAdd(new[k], new[k]) = RAdd(old[k], hot[k])]_vars

C3_Witness ==
  /\ lastop.op = "update_beliefs" /\ lastop.s = Rat(1, 2)
  /\ current_actions[0] # current_actions[1]
  /\ \A i \in 0..1 : heap[cur_belief[i]][current_actions[1 - i]] # One

\* C4: simulate(ts_length, init_beliefs) with explicit init_beliefs returns
\* buffers of exactly ts_length rows, row t being the belief after exactly t
\* rounds (row 0 the supplied initial belief), and a row once written keeps
\* that value while later rounds run.
C4_SimulateRows ==
  /\ frame.op = "simulate" =>
       \A i \in 0..1 : \A t \in 0..(frame.t - 1) :
         frame.out[i][t] = Rounds(g, Supplied(frame.init), t)[i]
  /\ ret.op = "simulate" =>
       \A i \in 0..1 :
         /\ DOMAIN ret.out[i] = 0..(ret.ts_length - 1)
         /\ \A t \in 0..(ret.ts_length - 1) :
              ret.out[i][t] = Rounds(g, Supplied(ret.init), t)[i]

C4_Witness ==
  /\ ret.op = "simulate" /\ ret.ts_length = MaxTs
  /\ \A i \in 0..1 : ret.out[i][0] = Supplied(ret.init)[i]
  /\ \A i \in 0..1 : ret.out[i][MaxTs - 1] # ret.out[i][0]

\* C5: construction fails, and leaves no engine state, exactly when the
\* input is a game object whose player count is not 2 or an array whose
\* number of dimensions is not 2 or 3; otherwise it ends with N = 2,
\* initialized beliefs of the opponents' sizes, current_actions = (0, 0) and
\* the default schedule.
Rejected(d) ==
  \/ d.kind = "game" /\ d.game.N \in {1, 3}
  \/ d.kind = "array" /\ d.ndim \in {1, 4}

C5_ConstructionCheck ==
  /\ status # "new" => (status = "error" <=> Rejected(data))
  /\ status = "error" =>
       /\ N = 0 /\ g = NoGame /\ cur_belief = NoRefs
       /\ current_actions = <<>> /\ schedule = "none"
       /\ \A i \in 0..1 : heap[EngineAddr[i]] = <<>>
  /\ status = "ok" =>
       /\ N = 2 /\ schedule = "default"
       /\ \A i \in 0..1 : Size(heap[cur_belief[i]]) = g.nums_actions[1 - i]
       /\ lastop.op = "__init__" =>
            /\ current_actions = Pair(0, 0)
            /\ \A i \in 0..1 : IsProb(heap[cur_belief[i]])

C5_Witness ==
  /\ status = "error" /\ lastop.op = "raise"
  /\ data.kind = "array" /\ data.ndim = 4

\* C6: after set_init_beliefs([b0, b1]) current_beliefs equals (b0, b1)
\* exactly, and the engine holds copies: the caller's vectors are other
\* arrays than the engine's and no later round changes them.
C6_InitBeliefsCopied ==
  /\ lastop.op = "set_init_beliefs" /\ lastop.init # 0 =>
       Deref(heap, current_beliefs(cur_belief)) = Supplied(lastop.init)
  /\ \A k \in 1..NumIB : \A i \in 0..1 :
       /\ heap[IBAddr(k, i)] = CallerBeliefs(data.game, k)[i]
       /\ \A j \in 0..1 : cur_belief[j] # IBAddr(k, i)

C6_Witness ==
  /\ gens[1].st = "done" /\ gens[1].init # 0 /\ gens[1].ts_length >= 1
  /\ \A i \in 0..1 :
       /\ heap[cur_belief[i]] # Supplied(gens[1].init)[i]
       /\ heap[IBAddr(gens[1].init, i)] = Supplied(gens[1].init)[i]

\* C7: simulate, simulate_iter and replicate restart from init_beliefs: with
\* explicit init_beliefs what they produce is a function of their arguments
\* alone, whatever calls came before (the rows of replicate being those of
\* the engine's beliefs when the run's generator is exhausted).
C7_RestartFromInit ==
  /\ ret.op = "simulate" =>
       \A i \in 0..1 :
         ret.out[i] = [t \in 0..(ret.ts_length - 1) |->
                         Rounds(g, Supplied(ret.init), t)[i]]
  /\ ret.op = "replicate" =>
       \A i \in 0..1 :
         ret.out[i] = [j \in 0..(ret.num_reps - 1) |->
                         Rounds(g, Supplied(ret.init), ret.T + 1)[i]]
  /\ \A k \in GenIds :
       gens[k].init # 0 /\ clean[k] =>
         seen[k] = [t \in 1..Len(seen[k]) |->
                      Rounds(g, Supplied(gens[k].init), t - 1)]

C7_Witness ==
  /\ ret.op = "simulate" /\ ret.dirty /\ ret.ts_length = MaxTs
  /\ lastop.op = "return"
  /\ gens[1].st = "suspended"

\* C8: with explicit init_beliefs replicate(T, num_reps, init_beliefs)
\* returns buffers of exactly num_reps rows, and all rows of a player's
\* buffer are equal.
C8_ReplicateRowsEqual ==
  ret.op = "replicate" =>
    \A i \in 0..1 :
      /\ DOMAIN ret.out[i] = 0..(ret.num_reps - 1)
      /\ \A j \in DOMAIN ret.out[i] :
           /\ Size(ret.out[i][j]) = belief_sizes[i]
           /\ ret.out[i][j] = ret.out[i][0]

C8_Witness ==
  /\ ret.op = "replicate" /\ ret.num_reps = MaxReps /\ ret.T = MaxT
  /\ ret.dirty
  /\ \A i \in 0..1 : ret.out[i][0] # Supplied(ret.init)[i]

\* C9 as stated: when the pulls of two generators of one engine are
\* interleaved in any order, each yields the sequence it yields alone.
C9_InterleavedRunsIndependent ==
  \A k \in GenIds :
    gens[k].init # 0 =>
      \A t \in 1..Len(seen[k]) :
        seen[k][t] = Rounds(g, Supplied(gens[k].init), t - 1)

\* C9 amended: the generators of one engine share its belief state: every
\* element yielded is the engine's current belief pair, and a generator
\* yields the sequence it yields alone as long as no pull of the other
\* generator falls between its own pulls.
C9_SharedBeliefState ==
  /\ lastop.op = "next" /\ ~lastop.stop =>
       seen[lastop.gen][Len(seen[lastop.gen])]
         = Deref(heap, current_beliefs(cur_belief))
  /\ \A k \in GenIds :
       gens[k].init # 0 /\ clean[k] =>
         \A t \in 1..Len(seen[k]) :
           seen[k][t] = Rounds(g, Supplied(gens[k].init), t - 1)

C9_Witness ==
  /\ clean[1] /\ ~clean[2]
  /\ gens[1].init # 0 /\ gens[2].init # 0 /\ gens[1].init # gens[2].init
  /\ Len(seen[1]) >= 2 /\ Len(seen[2]) >= 1
  /\ seen[1][2] # seen[1][1]

\* C10: the initial beliefs being probability vectors and every step size
\* lying in (0, 1], each player's belief is a probability vector after any
\* sequence of play() and update_beliefs(step), and so is every element
\* yielded by simulate_iter.
C10_BeliefsAreProbabilities ==
  /\ \A s \in StepSizes : RLt(Zero, s) /\ RLe(s, One)
  /\ status = "ok" =>
       /\ \A i \in 0..1 : IsProb(heap[cur_belief[i]])
       /\ \A k \in GenIds : \A t \in 1..Len(seen[k]) : \A i \in 0..1 :
            IsProb(seen[k][t][i])

C10_Witness ==
  /\ lastop.op = "update_beliefs" /\ lastop.s = One
  /\ nops = MaxOps
  /\ Len(seen[1]) >= 2
  /\ \E i \in 0..1 : \E k \in DOMAIN heap[cur_belief[i]] :
       heap[cur_belief[i]][k] = Zero

\* the action player j played in round r of generator k: play() read the
\* beliefs the generator had just yielded as element r
Played(k, r, j) == best_response(g.payoff[j], seen[k][r + 1][j])

\* in how many of the rounds 0..n-1 of generator k player j played action c
RECURSIVE TimesPlayed(_, _, _, _)
TimesPlayed(k, n, j, c) ==
  IF n = 0 THEN 0
  ELSE TimesPlayed(k, n - 1, j, c) + (IF Played(k, n - 1, j) = c THEN 1 ELSE 0)

\* C11: with the default schedule 1/(t+2) the beliefs are running averages:
\* in an undisturbed run with explicit init_beliefs, element t of
\* simulate_iter is, for each player i, the initial belief plus the one-hot
\* vectors of the opponent's actions in rounds 0..t-1, divided by t + 1.
C11_EmpiricalAverage ==
  \A k \in GenIds :
    schedule = "default" /\ gens[k].init # 0 /\ clean[k] =>
      \A t \in 0..(Len(seen[k]) - 1) : \A i \in 0..1 :
        \A c \in DOMAIN seen[k][t + 1][i] :
          seen[k][t + 1][i][c]
            = RMul(RAdd(Supplied(gens[k].init)[i][c],
                        Rat(TimesPlayed(k, t, 1 - i, c), 1)),
                   Rat(1, t + 1))

C11_Witness ==
  /\ schedule = "default" /\ gens[1].init # 0 /\ clean[1]
  /\ Len(seen[1]) = MaxTs
  /\ TimesPlayed(1, MaxTs - 1, 0, 0) >= 1
  /\ TimesPlayed(1, MaxTs - 1, 0, 1) >= 1

\* C12: the buffers simulate(ts_length, init_beliefs) returns equal, row for
\* row, what the caller gets by first collecting every element yielded by
\* simulate_iter(ts_length, init_beliefs) until it is exhausted and then
\* stacking the collected belief vectors per player.
C12_SimulateIsCollectThenStack ==
  \A k \in GenIds :
    /\ ret.op = "simulate"
    /\ gens[k].st = "done" /\ clean[k]
    /\ gens[k].ts_length = ret.ts_length /\ gens[k].init = ret.init
    => ret.out = stacked[k]

\* C13: a caller that pulls k elements (1 <= k <= ts_length) and stops
\* leaves the engine, as long as nothing else touches it, with both players'
\* beliefs equal to the k-th yielded pair, the state after exactly k - 1
\* completed rounds; at no suspension point has one player's belief been
\* updated for a round and the other's not.
C13_StopAfterKPulls ==
  \A k \in GenIds :
    gens[k].st = "suspended" /\ clean[k] =>
      LET n == Len(seen[k])
      IN  /\ 1 <= n /\ n <= gens[k].ts_length /\ n = gens[k].t + 1
          /\ Deref(heap, current_beliefs(cur_belief)) = seen[k][n]
          /\ \A i \in 0..1 :
               heap[cur_belief[i]] = Rounds(g, seen[k][1], n - 1)[i]

C13_Witness ==
  /\ gens[1].st = "suspended" /\ clean[1]
  /\ Len(seen[1]) = 2 /\ gens[1].ts_length = MaxTs
  /\ lastop.op = "play"
  /\ \A i \in 0..1 : heap[cur_belief[i]] # seen[1][1][i]

\* C14: an engine's belief vectors are owned by that engine alone:
\* constructing a second engine from the same game object, and every
\* operation on that second engine, leaves the first engine's current_beliefs
\* as they were; and a construction only refers to the game object supplied,
\* it does not change it (its players get no new current_belief).
C14_BeliefsOwnedExclusively ==
  [][/\ lastop'.op \in {"second.__init__", "second.play",
                        "second.update_beliefs"} =>
          Deref(heap', current_beliefs(cur_belief'))
            = Deref(heap, current_beliefs(cur_belief))
     /\ lastop'.op \in {"__init__", "second.__init__"}
          /\ data.kind = "game" => cur_belief' = cur_belief]_vars

\* C15: play() overwrites only current_actions, with each player's best
\* response to that player's own belief, and leaves the beliefs alone;
\* update_beliefs(s) changes only the two belief vectors and leaves
\* current_actions alone; set_init_beliefs changes only the belief vectors.
C15_OperationFrames ==
  [][/\ lastop'.op = "play" =>
          /\ heap' = heap /\ cur_belief' = cur_belief
          /\ \A i \in 0..1 :
               current_actions'[i]
                 = best_response(g.payoff[i], heap[cur_belief[i]])
     /\ lastop'.op \in {"update_beliefs", "set_init_beliefs"} =>
          /\ current_actions' = current_actions
          /\ cur_belief' = cur_belief
          /\ \A a \in Addr :
               a \notin {cur_belief[0], cur_belief[1]} => heap'[a] = heap[a]]_vars

C15_Witness ==
  /\ lastop.op = "update_beliefs"
  /\ current_actions[0] # current_actions[1]
  /\ \A k \in 1..NumIB :
       Deref(heap, current_beliefs(cur_belief)) # Supplied(k)
  /\ gens[1].st = "none"

\* C16: from construction on, the belief of player i has as many entries as
\* the opponent has actions; no operation changes these lengths (nor do the
\* yielded elements have others), and the index update_beliefs writes for
\* player i, current_actions[1 - i], lies within that length.
C16_BeliefLengths ==
  status = "ok" =>
    \A i \in 0..1 :
      LET n == g.nums_actions[1 - i]
      IN  /\ belief_sizes[i] = n
          /\ DOMAIN heap[cur_belief[i]] = 0..(n - 1)
          /\ current_actions[1 - i] \in DOMAIN heap[cur_belief[i]]
          /\ \A k \in GenIds : \A t \in 1..Len(seen[k]) :
               DOMAIN seen[k][t][i] = 0..(n - 1)

C16_Witness ==
  /\ status = "ok" /\ g.nums_actions[0] # g.nums_actions[1]
  /\ lastop.op = "update_beliefs"
  /\ current_actions[1] >= 1
  /\ Size(heap[cur_belief[0]]) = 3 /\ Size(heap[cur_belief[1]]) = 2
  /\ Len(seen[1]) >= 1

\* C17: when simulate_iter(ts_length) has been run to exhaustion, undisturbed,
\* the engine has performed exactly ts_length rounds: it yielded ts_length
\* elements, the last one the beliefs after ts_length - 1 rounds, and on
\* return current_beliefs are the beliefs after ts_length rounds, one beyond
\* the last yielded, and current_actions the actions of round ts_length - 1.
C17_ExhaustionRunsAllRounds ==
  \A k \in GenIds :
    /\ lastop.op = "next" /\ lastop.gen = k /\ lastop.stop
    /\ clean[k]
    /\ gens[k].init # 0 \/ Len(seen[k]) >= 1
    => LET n == gens[k].ts_length
           b == IF gens[k].init # 0 THEN Supplied(gens[k].init)
                ELSE seen[k][1]
       IN  /\ gens[k].st = "done"
           /\ gens[k].t = n /\ Len(seen[k]) = n
           /\ Deref(heap, current_beliefs(cur_belief)) = Rounds(g, b, n)
           /\ n >= 1 =>
                /\ seen[k][n] = Rounds(g, b, n - 1)
                /\ \A i \in 0..1 :
                     current_actions[i]
                       = best_response(g.payoff[i], seen[k][n][i])

C17_Witness ==
  /\ lastop.op = "next" /\ lastop.gen = 1 /\ lastop.stop /\ clean[1]
  /\ gens[1].ts_length = MaxTs /\ gens[1].init # 0
  /\ Deref(heap, current_beliefs(cur_belief)) # seen[1][MaxTs]
  /\ current_actions # Pair(0, 0)

\* C18: simulate_iter is lazy. The call itself changes no engine state. The
\* first pull resets the beliefs (to init_beliefs when given) and performs no
\* round: it yields the reset beliefs, or with ts_length = 0 yields nothing
\* and reports exhaustion. Every later pull performs exactly one play() and
\* one update_beliefs(step_size(t)) and then yields or reports exhaustion.
C18_LazyGenerator ==
  [][/\ lastop'.op = "simulate_iter" =>
          /\ heap' = heap /\ current_actions' = current_actions
          /\ cur_belief' = cur_belief /\ seen' = seen
     /\ lastop'.op = "next" =>
          LET k == lastop'.gen
              gn == gens[k]
              b == Deref(heap, current_beliefs(cur_belief))
              b1 == Deref(heap', current_beliefs(cur_belief'))
          IN  /\ gn.st = "created" =>
                   /\ current_actions' = current_actions
                   /\ gn.init # 0 => b1 = Supplied(gn.init)
                   /\ gn.init = 0 =>
                        b1 \in Draws(belief_sizes)
                   /\ lastop'.stop <=> gn.ts_length = 0
                   /\ seen'[k] = IF gn.ts_length = 0 THEN <<>> ELSE <<b1>>
              /\ gn.st = "suspended" =>
                   /\ \A i \in 0..1 :
                        current_actions'[i]
                          = best_response(g.payoff[i], b[i])
                   /\ b1 = Round(g, b, step_size(gn.t))
                   /\ lastop'.stop <=> gn.t + 1 = gn.ts_length
                   /\ seen'[k] = IF lastop'.stop THEN seen[k]
                                 ELSE Append(seen[k], b1)]_vars

C18_Witness ==
  /\ lastop.op = "next" /\ lastop.gen = 1 /\ lastop.stop
  /\ gens[1].ts_length = 0 /\ gens[1].init # 0 /\ seen[1] = <<>>
  /\ Deref(heap, current_beliefs(cur_belief)) = Supplied(gens[1].init)
  /\ current_actions # Pair(0, 0)

====
